---- MODULE Spec2Model ----
(***************************************************************************)
(* QuoteVault: the asynchronous crawl of scraper.py.                       *)
(*                                                                         *)
(* A string is a record [s |-> tokens] holding a sequence of tokens, so    *)
(* that Python's + on strings is Concat and startswith looks at the first  *)
(* token.  None is a value of its own, the empty string is Str(<< >>) and  *)
(* the empty dict {} is EmptyRecord.                                       *)
(***************************************************************************)
EXTENDS Naturals, Sequences, FiniteSets, TLC

\* Bounds of the model.
MaxPages == 2        \* listing pages the site serves
MaxQuotes == 2       \* quote elements on the listing pages, all together
MaxSteps == 2        \* iterations of the controller's while loop
MaxElements == 3     \* quote elements of a page handed to fetch_quotes
MaxChars == 4        \* characters of the text of a tag handed to extract_text
MaxLinks == 2        \* <a> elements inside the li.next of a page

None == [none |-> TRUE]
EmptyRecord == [k \in {} |-> k]

Str(tokens) == [s |-> tokens]
Concat(a, b) == Str(a.s \o b.s)

BASE_URL == Str(<<"https://quotes.toscrape.com">>)

\* Python's truth value of an Optional[str].
Truthy(v) == v # None /\ v # Str(<< >>)

(***************************************************************************)
(* The site: what the HTTP collaborator serves.                            *)
(***************************************************************************)
Pages == 1..MaxPages

\* The path of listing page k (page 1 is also served at the bare base URL).
PageTokens == <<"/", "/page/2/", "/page/3/", "/page/4/", "/page/5/">>

PageUrl(k) == IF k = 1 THEN BASE_URL ELSE Concat(BASE_URL, Str(<<PageTokens[k]>>))

\* The hrefs of the author links the listing pages carry.
AuthorHrefs == {Str(<<"/author/a">>), Str(<<"/author/b">>)}

\* A quote element of a listing page: a div.quote whose first <a> has the
\* given href (None: it has no <a>), or one whose extraction raises.
QuoteElements ==
    {[malformed |-> FALSE, href |-> h] : h \in AuthorHrefs \cup {None}}
        \cup {[malformed |-> TRUE, href |-> None]}

RECURSIVE SeqsUpTo(_, _)
SeqsUpTo(S, n) ==
    IF n = 0 THEN {<< >>}
    ELSE LET shorter == SeqsUpTo(S, n - 1)
         IN  shorter \cup {Append(q, e) : q \in {r \in shorter : Len(r) = n - 1}, e \in S}

\* The href of the  li.next a  of listing page k (None: the page has none):
\* back to the first page, or on to the following page, written as a path or
\* as a full URL.
NextHrefs(k) ==
    {None, Str(<<PageTokens[1]>>)}
        \cup (IF k < MaxPages
              THEN {Str(<<PageTokens[k + 1]>>), PageUrl(k + 1)}
              ELSE {})

\* The hrefs of NextHrefs(k) that lead on to page k + 1.
ForwardHrefs(k) == NextHrefs(k) \ {None, Str(<<PageTokens[1]>>)}

\* Pages j..MaxPages with nothing on them.
EmptyPages(j) == [i \in 1..(MaxPages + 1 - j) |-> [elements |-> << >>, next |-> None]]

\* The pages k..MaxPages of the sites that hold at most budget quote elements
\* from page k on.  A page no next link leads to is left empty.
RECURSIVE SitesFrom(_, _)
SitesFrom(k, budget) ==
    IF k > MaxPages THEN {<< >>}
    ELSE UNION {{<<[elements |-> e, next |-> x]>> \o rest :
                    rest \in (IF x \in ForwardHrefs(k)
                              THEN SitesFrom(k + 1, budget - Len(e))
                              ELSE {EmptyPages(k + 1)})} :
                 e \in SeqsUpTo(QuoteElements, budget), x \in NextHrefs(k)}

\* A site is a sequence of listing pages, indexed by page number.
Sites == SitesFrom(1, MaxQuotes)

VARIABLES
    site,                 \* the listing pages the server holds (never changes)
    pc,                   \* where scrape_all_data is
    current_url,          \* scrape_all_data: current_url
    all_quotes,           \* scrape_all_data: all_quotes
    all_authors_details,  \* scrape_all_data: all_authors_details
    fetched_authors,      \* scrape_all_data: fetched_authors
    quotes,               \* scrape_page_data: quotes
    tasks,                \* scrape_page_data: the gathered fetch_author_details calls
    authors_details,      \* scrape_page_data: authors_details
    completed,            \* the gathered calls that have finished, in finishing order
    inflight,             \* the GETs issued and not yet answered
    step,                 \* number of loop iterations begun
    trace,                \* history: the listing-page GETs issued, with their outcome
    dispatched,           \* history: the author URLs fetches were dispatched for
    author_failed,        \* history: the author URLs whose fetch failed
    main_pc,              \* where main is
    written,              \* the output documents written, in the order written
    write_failed,         \* history: the output documents whose write failed
    call,                 \* a helper function under evaluation, with its arguments
    result                \* what the helper function returned

crawl_vars == <<site, pc, current_url, all_quotes, all_authors_details,
                fetched_authors, quotes, tasks, authors_details, completed,
                inflight, step, trace, dispatched, author_failed>>

main_vars == <<main_pc, written, write_failed>>

helper_vars == <<call, result>>

vars == <<crawl_vars, main_vars, helper_vars>>

\* The listing page a URL is routed to (0: the server has no such page).
Route(url) ==
    IF url = BASE_URL THEN 1
    ELSE IF \E k \in Pages : url = Concat(BASE_URL, Str(<<PageTokens[k]>>))
         THEN CHOOSE k \in Pages : url = Concat(BASE_URL, Str(<<PageTokens[k]>>))
         ELSE 0

\* The parsed body of listing page k.  The text of a quote element of the
\* site names the place the element stands at.
Soup(k) ==
    [elements |-> [i \in 1..Len(site[k].elements) |->
                      [malformed |-> site[k].elements[i].malformed,
                       href      |-> site[k].elements[i].href,
                       text      |-> [page |-> k, idx |-> i]]],
     next     |-> site[k].next]

\* The author page the server holds at an author URL.
IsAuthorUrl(url) == \E h \in AuthorHrefs : url = Concat(BASE_URL, h)

AuthorPage(url) == [fullname |-> url.s[Len(url.s)]]

(***************************************************************************)
(* fetch_quotes                                                            *)
(***************************************************************************)
\* safe_get(quote.find('a'), 'href'): the attribute, None without the tag.
safe_get(element) == element.href

\* if author_url: author_url = BASE_URL + author_url
ResolveAuthorUrl(href) == IF Truthy(href) THEN Concat(BASE_URL, href) ELSE href

ExtractQuote(soup, i) ==
    [quote      |-> soup.elements[i].text,
     author_url |-> ResolveAuthorUrl(safe_get(soup.elements[i]))]

\* Mutant: the except clause ends the loop (break).
FetchQuotesFromAborts(soup, i) ==
    LET bad  == {j \in i..Len(soup.elements) : soup.elements[j].malformed}
        stop == IF bad = {} THEN Len(soup.elements) + 1
                ELSE CHOOSE j \in bad : \A b \in bad : j <= b
    IN  [j \in 1..(stop - i) |-> ExtractQuote(soup, i + j - 1)]

\* The loop of lines 33-68 from element i on: an element whose extraction
\* raises is logged and skipped (continue).
RECURSIVE FetchQuotesFrom(_, _)
FetchQuotesFrom(soup, i) ==
    IF i > Len(soup.elements) THEN << >>
    ELSE IF soup.elements[i].malformed
         THEN FetchQuotesFrom(soup, i + 1)
         ELSE <<ExtractQuote(soup, i)>> \o FetchQuotesFrom(soup, i + 1)

fetch_quotes(soup) == FetchQuotesFrom(soup, 1)

(***************************************************************************)
(* fetch_author_details                                                    *)
(***************************************************************************)
Pending == [pending |-> TRUE]
Raised == [raised |-> TRUE]

\* Mutant: the except clauses re-raise.
OnFetchErrorRaises(author_url) == Raised

\* The except clauses of fetch_author_details: log, return {}.
OnFetchError(author_url) == EmptyRecord

(***************************************************************************)
(* scrape_page_data                                                        *)
(***************************************************************************)
\* Mutant: the comprehension without its  not in fetched_authors  filter.
AuthorsUrlsUnfiltered(qs, seen) ==
    {qs[i].author_url : i \in {j \in 1..Len(qs) : Truthy(qs[j].author_url)}}

\* The set comprehension of lines 172-175.
AuthorsUrls(qs, seen) ==
    {qs[i].author_url : i \in {j \in 1..Len(qs) :
        Truthy(qs[j].author_url) /\ qs[j].author_url \notin seen}}

\* The orders a set can be iterated in.
Orderings(S) ==
    {o \in [1..Cardinality(S) -> S] :
        \A i, j \in 1..Cardinality(S) : i # j => o[i] # o[j]}

\* Mutant: resume at the first result (asyncio.wait, FIRST_COMPLETED).
GatherReadyFirst(ts) == Len(ts) = 0 \/ \E i \in 1..Len(ts) : ts[i].result # Pending

\* Mutant: the calls are started and not awaited.
GatherReadyNoWait(ts) == TRUE

\* asyncio.gather resumes its caller once every awaitable has a result.
GatherReady(ts) == \A i \in 1..Len(ts) : ts[i].result # Pending

\* Mutant: the results in the order the calls finished (as_completed).
GatherResultsAsCompleted(ts) == [i \in 1..Len(completed) |-> ts[completed[i]].result]

\* The list asyncio.gather returns: the results in the order of its arguments.
GatherResults(ts) == [i \in 1..Len(ts) |-> ts[i].result]

\* Mutant: the update is left out.
SeenUpdateForgets(seen, urls) == seen

\* Mutant: the set is rebound to the new batch.
SeenUpdateReplaces(seen, urls) == urls

\* fetched_authors.update(authors_urls)
SeenUpdate(seen, urls) == seen \cup urls

\* Mutant: a failed page hands back a placeholder author record.
ScrapeFailedPlaceholder(seen) ==
    [quotes |-> << >>, authors_details |-> <<EmptyRecord>>, fetched |-> seen]

\* What the except clauses of scrape_page_data hand back: return [], [],
\* with fetched_authors as it was.
ScrapeFailed(seen) ==
    [quotes |-> << >>, authors_details |-> << >>, fetched |-> seen]

\* Mutant: scrape_page_data lets the error through to the controller, whose
\* except clauses end the loop.
AfterScrapeFailedEnds == "done"

\* Where the controller goes on after scrape_page_data has caught its error
\* and returned: to the lookup of line 235.
AfterScrapeFailed == "lookup"

(***************************************************************************)
(* scrape_all_data                                                         *)
(***************************************************************************)
\* Mutant: the new items are put in front.
ExtendPrepends(acc, xs) == xs \o acc

\* Mutant: assignment instead of extend.
ExtendReplaces(acc, xs) == xs

\* all_quotes.extend(quotes); all_authors_details.extend(authors_details)
Extend(acc, xs) == acc \o xs

\* next_url.startswith('http')
StartsWithHttp(href) == Len(href.s) > 0 /\ href.s[1] = BASE_URL.s[1]

\* next_url if next_url.startswith('http') else BASE_URL + next_url
ResolveNext(next_url) ==
    IF StartsWithHttp(next_url) THEN next_url ELSE Concat(BASE_URL, next_url)

\* Mutant: without a next link the cursor is left as it is.
NextCursorSticks(next) == IF next # None THEN ResolveNext(next) ELSE current_url

\* Mutant: the link is followed only if the scrape of the page went through.
NextCursorNeedsScrape(next) ==
    IF next # None /\ trace[Len(trace) - 1].outcome = "ok" THEN ResolveNext(next) ELSE None

\* The cursor after a lookup that found the given li.next a href (None: the
\* page has no such link).
NextCursor(next) == IF next # None THEN ResolveNext(next) ELSE None

\* Mutant: the error leaves scrape_all_data.
OnLookupErrorRaises == "raised"

\* The except clauses around the while loop: log, fall through to the return.
OnLookupError == "done"

\* No helper function is under evaluation.
NoCall == [fn |-> "none"]

\* A call that has not returned, and one that has returned v.
NotReturned == [returned |-> FALSE]

Returned(v) == [returned |-> TRUE, value |-> v]

\* The last entry of the trace with its outcome set.
Answered(tr, outcome) == [tr EXCEPT ![Len(tr)].outcome = outcome]

Init ==
    /\ site \in Sites
    /\ pc = "loop"
    /\ current_url = BASE_URL
    /\ all_quotes = << >>
    /\ all_authors_details = << >>
    /\ fetched_authors = {}
    /\ quotes = << >>
    /\ tasks = << >>
    /\ authors_details = << >>
    /\ completed = << >>
    /\ inflight = {}
    /\ step = 0
    /\ trace = << >>
    /\ dispatched = << >>
    /\ author_failed = {}
    /\ main_pc = "crawl"
    /\ written = << >>
    /\ write_failed = {}
    /\ call = NoCall
    /\ result = NotReturned

\* while current_url: scrape_page_data(...) issues session.get(page_url).
PageGetIssue ==
    /\ pc = "loop"
    /\ Truthy(current_url)
    /\ step < MaxSteps
    /\ step' = step + 1
    /\ inflight' = inflight \cup {[kind |-> "page", url |-> current_url, step |-> step + 1]}
    /\ trace' = Append(trace, [kind |-> "page", url |-> current_url,
                               step |-> step + 1, outcome |-> "pending"])
    /\ pc' = "page_get"
    /\ UNCHANGED <<main_vars, helper_vars, site, current_url, all_quotes, all_authors_details,
                   fetched_authors, quotes, tasks, authors_details, completed,
                   dispatched, author_failed>>

\* The page GET is answered with the page: the quotes are extracted and the
\* author fetches of the page are created, each issuing its GET.
PageGetOk ==
    /\ pc = "page_get"
    /\ Route(current_url) # 0
    /\ LET qs   == fetch_quotes(Soup(Route(current_url)))
           urls == AuthorsUrls(qs, fetched_authors)
       IN  \E order \in Orderings(urls) :
             /\ quotes' = qs
             /\ tasks' = [i \in 1..Cardinality(urls) |->
                            [url |-> order[i], result |-> Pending]]
             /\ inflight' = (inflight \ {[kind |-> "page", url |-> current_url, step |-> step]})
                   \cup {[kind |-> "author", url |-> u, step |-> step] : u \in urls}
             /\ dispatched' = dispatched \o order
    /\ trace' = Answered(trace, "ok")
    /\ completed' = << >>
    /\ pc' = "gather"
    /\ UNCHANGED <<main_vars, helper_vars, site, current_url, all_quotes, all_authors_details,
                   fetched_authors, authors_details, step, author_failed>>

\* The page GET fails (transport error, error status, or an unexpected
\* error): scrape_page_data returns and the controller extends.
PageGetFail ==
    /\ pc = "page_get"
    /\ LET r == ScrapeFailed(fetched_authors)
       IN  /\ all_quotes' = Extend(all_quotes, r.quotes)
           /\ all_authors_details' = Extend(all_authors_details, r.authors_details)
           /\ fetched_authors' = r.fetched
    /\ inflight' = inflight \ {[kind |-> "page", url |-> current_url, step |-> step]}
    /\ trace' = Answered(trace, "fail")
    /\ pc' = AfterScrapeFailed
    /\ UNCHANGED <<main_vars, helper_vars, site, current_url, quotes, tasks, authors_details, completed,
                   step, dispatched, author_failed>>

\* fetch_author_details: the GET of an author page is answered with the page.
AuthorFetchOk(i) ==
    /\ pc = "gather"
    /\ tasks[i].result = Pending
    /\ IsAuthorUrl(tasks[i].url)
    /\ tasks' = [tasks EXCEPT ![i].result = AuthorPage(tasks[i].url)]
    /\ completed' = Append(completed, i)
    /\ inflight' = inflight \ {[kind |-> "author", url |-> tasks[i].url, step |-> step]}
    /\ UNCHANGED <<main_vars, helper_vars, site, pc, current_url, all_quotes, all_authors_details,
                   fetched_authors, quotes, authors_details, step, trace,
                   dispatched, author_failed>>

\* fetch_author_details: the GET of an author page fails.
AuthorFetchFail(i) ==
    /\ pc = "gather"
    /\ tasks[i].result = Pending
    /\ tasks' = [tasks EXCEPT ![i].result = OnFetchError(tasks[i].url)]
    /\ completed' = Append(completed, i)
    /\ inflight' = inflight \ {[kind |-> "author", url |-> tasks[i].url, step |-> step]}
    /\ author_failed' = author_failed \cup {tasks[i].url}
    /\ UNCHANGED <<main_vars, helper_vars, site, pc, current_url, all_quotes, all_authors_details,
                   fetched_authors, quotes, authors_details, step, trace, dispatched>>

\* await asyncio.gather(...) resumes.  A call that raised makes gather raise
\* into the except clauses of scrape_page_data; otherwise authors_details is
\* bound and fetched_authors is updated.
GatherDone ==
    /\ pc = "gather"
    /\ GatherReady(tasks)
    /\ IF \E i \in 1..Len(tasks) : tasks[i].result = Raised
       THEN LET r == ScrapeFailed(fetched_authors)
            IN  /\ all_quotes' = Extend(all_quotes, r.quotes)
                /\ all_authors_details' = Extend(all_authors_details, r.authors_details)
                /\ fetched_authors' = r.fetched
                /\ quotes' = << >>
                /\ tasks' = << >>
                /\ completed' = << >>
                /\ pc' = AfterScrapeFailed
                /\ UNCHANGED authors_details
       ELSE /\ authors_details' = GatherResults(tasks)
            /\ fetched_authors' =
                  SeenUpdate(fetched_authors, {tasks[i].url : i \in 1..Len(tasks)})
            /\ pc' = "page_return"
            /\ UNCHANGED <<all_quotes, all_authors_details, quotes, tasks, completed>>
    /\ UNCHANGED <<main_vars, helper_vars, site, current_url, inflight, step, trace, dispatched, author_failed>>

\* return quotes, authors_details; the controller extends its accumulators.
PageReturn ==
    /\ pc = "page_return"
    /\ all_quotes' = Extend(all_quotes, quotes)
    /\ all_authors_details' = Extend(all_authors_details, authors_details)
    /\ quotes' = << >>
    /\ tasks' = << >>
    /\ authors_details' = << >>
    /\ completed' = << >>
    /\ pc' = "lookup"
    /\ UNCHANGED <<main_vars, helper_vars, site, current_url, fetched_authors, inflight, step, trace,
                   dispatched, author_failed>>

\* session.get(current_url), the second GET of the iteration.
NextGetIssue ==
    /\ pc = "lookup"
    /\ inflight' = inflight \cup {[kind |-> "next", url |-> current_url, step |-> step]}
    /\ trace' = Append(trace, [kind |-> "next", url |-> current_url,
                               step |-> step, outcome |-> "pending"])
    /\ pc' = "next_get"
    /\ UNCHANGED <<main_vars, helper_vars, site, current_url, all_quotes, all_authors_details,
                   fetched_authors, quotes, tasks, authors_details, completed,
                   step, dispatched, author_failed>>

\* The lookup is answered with the page: the cursor moves.
NextGetOk ==
    /\ pc = "next_get"
    /\ Route(current_url) # 0
    /\ current_url' = NextCursor(Soup(Route(current_url)).next)
    /\ inflight' = inflight \ {[kind |-> "next", url |-> current_url, step |-> step]}
    /\ trace' = Answered(trace, "ok")
    /\ pc' = "loop"
    /\ UNCHANGED <<main_vars, helper_vars, site, all_quotes, all_authors_details, fetched_authors,
                   quotes, tasks, authors_details, completed, step,
                   dispatched, author_failed>>

\* The lookup raises.
NextGetFail ==
    /\ pc = "next_get"
    /\ inflight' = inflight \ {[kind |-> "next", url |-> current_url, step |-> step]}
    /\ trace' = Answered(trace, "fail")
    /\ pc' = OnLookupError
    /\ UNCHANGED <<main_vars, helper_vars, site, current_url, all_quotes, all_authors_details,
                   fetched_authors, quotes, tasks, authors_details, completed,
                   step, dispatched, author_failed>>

\* current_url is None: the loop ends and scrape_all_data returns.
LoopExit ==
    /\ pc = "loop"
    /\ ~Truthy(current_url)
    /\ pc' = "done"
    /\ UNCHANGED <<main_vars, helper_vars, site, current_url, all_quotes, all_authors_details,
                   fetched_authors, quotes, tasks, authors_details, completed,
                   inflight, step, trace, dispatched, author_failed>>

(***************************************************************************)
(* main and the two writers of save.py                                     *)
(***************************************************************************)
\* Mutant: the except clauses of the writers log and return.
OnWriteErrorSwallows == "return"

\* The except clauses of write_quotes_to_json and write_authors_to_json:
\* log, raise.
OnWriteError == "raise"

\* Mutant: main's except clause logs and re-raises.
MainExceptReraises == "crashed"

\* main's except clause: log; main then ends as it does after a clean run.
MainExcept == "caught"

\* Where main is after a writer has failed: in its except clause if the
\* writer raised, at the given next statement if it returned.
AfterWriteError(next_stmt) == IF OnWriteError = "raise" THEN MainExcept ELSE next_stmt

\* quotes, authors = await scrape_all_data()
ScrapeAllDataReturns ==
    /\ main_pc = "crawl"
    /\ pc \in {"done", "raised"}
    /\ main_pc' = IF pc = "raised" THEN MainExcept ELSE "write_quotes"
    /\ UNCHANGED <<crawl_vars, helper_vars, written, write_failed>>

\* write_quotes_to_json(quotes)
WriteQuotesOk ==
    /\ main_pc = "write_quotes"
    /\ written' = Append(written, [doc |-> "quotes.json", data |-> all_quotes])
    /\ main_pc' = "write_authors"
    /\ UNCHANGED <<crawl_vars, helper_vars, write_failed>>

WriteQuotesFail ==
    /\ main_pc = "write_quotes"
    /\ write_failed' = write_failed \cup {"quotes.json"}
    /\ main_pc' = AfterWriteError("write_authors")
    /\ UNCHANGED <<crawl_vars, helper_vars, written>>

\* write_authors_to_json(authors)
WriteAuthorsOk ==
    /\ main_pc = "write_authors"
    /\ written' = Append(written, [doc |-> "authors.json", data |-> all_authors_details])
    /\ main_pc' = "completed"
    /\ UNCHANGED <<crawl_vars, helper_vars, write_failed>>

WriteAuthorsFail ==
    /\ main_pc = "write_authors"
    /\ write_failed' = write_failed \cup {"authors.json"}
    /\ main_pc' = AfterWriteError("completed")
    /\ UNCHANGED <<crawl_vars, helper_vars, written>>

Next ==
    \/ PageGetIssue
    \/ PageGetOk
    \/ PageGetFail
    \/ \E i \in 1..Len(tasks) : AuthorFetchOk(i)
    \/ \E i \in 1..Len(tasks) : AuthorFetchFail(i)
    \/ GatherDone
    \/ PageReturn
    \/ NextGetIssue
    \/ NextGetOk
    \/ NextGetFail
    \/ LoopExit

\* scrape_all_data, called once.
Spec == Init /\ [][Next]_vars

\* scrape_all_data on an event loop that keeps running what is ready, with
\* every GET answered in the end.
FairSpec == Spec /\ WF_vars(Next)

\* main: scrape_all_data, then the two writers.
NextMain ==
    \/ Next
    \/ ScrapeAllDataReturns
    \/ WriteQuotesOk
    \/ WriteQuotesFail
    \/ WriteAuthorsOk
    \/ WriteAuthorsFail

SpecMain == Init /\ [][NextMain]_vars

(***************************************************************************)
(* The helper functions, each called on its own.                           *)
(***************************************************************************)
\* The texts and the author hrefs of the quote elements handed to
\* fetch_quotes: no <a>, a path, a full URL.
ElementTexts == {Str(<<"q1">>), Str(<<"q2">>)}

ElementHrefs == {None, Str(<<"/author/a">>), Concat(BASE_URL, Str(<<"/author/a">>))}

HelperElements ==
    {[malformed |-> FALSE, href |-> h, text |-> t] : h \in ElementHrefs, t \in ElementTexts}
        \cup {[malformed |-> TRUE, href |-> None, text |-> None]}

HelperSoups == {[elements |-> e, next |-> None] : e \in SeqsUpTo(HelperElements, MaxElements)}

FetchQuotesCalls == {[fn |-> "fetch_quotes", soup |-> s] : s \in HelperSoups}

(***************************************************************************)
(* extract_url and is_valid_url (utils.py)                                 *)
(***************************************************************************)
\* How urllib.parse.urlparse splits a string, told by the string's head:
\* scheme and network location, a network location alone, a scheme alone,
\* an unbalanced bracket in the network location (ValueError: Invalid IPv6
\* URL), or a plain path.
OriginHeads == {"https://quotes.toscrape.com"}

NetlocHeads == {"//cdn.example.com"}

SchemeHeads == {"mailto:"}

MalformedHeads == {"http://["}

urlparse(url) ==
    IF url.s = << >> THEN [scheme |-> FALSE, netloc |-> FALSE]
    ELSE IF url.s[1] \in MalformedHeads THEN Raised
    ELSE [scheme |-> url.s[1] \in OriginHeads \cup SchemeHeads,
          netloc |-> url.s[1] \in OriginHeads \cup NetlocHeads]

\* urllib.parse.urljoin(base, url) for a url that starts with a slash and
\* has no network location: the scheme and network location of the base,
\* then the url; a url with a scheme of its own is returned as it is.
urljoin(base, url) ==
    IF urlparse(url).scheme THEN url
    ELSE IF base.s # << >> /\ base.s[1] \in OriginHeads \cup NetlocHeads
         THEN Str(<<base.s[1]>> \o url.s)
         ELSE url

\* Lines 100-105.  The outcome is a returned boolean, or the ValueError of
\* urlparse, which nothing catches.
is_valid_url(url) ==
    IF ~Truthy(url) THEN Returned(FALSE)
    ELSE LET parsed == urlparse(url)
         IN  IF parsed = Raised THEN Raised
             ELSE Returned(parsed.scheme /\ parsed.netloc)

\* Lines 77-88.  A tag is None or an element; an element is always true.
extract_url(tag, default, base_url) ==
    IF tag = None \/ ~tag.has_attr THEN Returned(default)
    ELSE IF ~Truthy(tag.value) THEN Returned(default)
    ELSE IF Truthy(base_url) /\ urlparse(tag.value) = Raised THEN Raised
    ELSE LET url   == IF Truthy(base_url) /\ ~urlparse(tag.value).netloc
                      THEN urljoin(base_url, tag.value)
                      ELSE tag.value
             valid == is_valid_url(url)
         IN  IF valid = Raised THEN Raised
             ELSE IF valid.value THEN Returned(url) ELSE Returned(default)

\* The tags handed to extract_url: none, one without the attribute, one
\* with an empty attribute, one with a path, with a path-less scheme, with
\* a scheme-less host, with a full URL, with a malformed URL.
AttributeValues ==
    {Str(<< >>), Str(<<"/page/2/">>), Str(<<"mailto:", "a@b">>),
     Str(<<"//cdn.example.com", "/x">>), Concat(BASE_URL, Str(<<"/page/2/">>)),
     Str(<<"http://[">>)}

UrlTags ==
    {None, [has_attr |-> FALSE, value |-> None]}
        \cup {[has_attr |-> TRUE, value |-> v] : v \in AttributeValues}

UrlDefaults == {None, Str(<<"#">>)}

BaseUrls == {None, BASE_URL, Str(<<"/base">>)}

ExtractUrlCalls ==
    {[fn |-> "extract_url", tag |-> t, default |-> d, base_url |-> b] :
        t \in UrlTags, d \in UrlDefaults, b \in BaseUrls}

(***************************************************************************)
(* extract_text (utils.py)                                                 *)
(***************************************************************************)
\* Texts are strings of single characters here.
Chars == {"a", " ", "."}

\* \s of the pattern, and its class [.,;!?].
IsSpace(c) == c \in {" ", "\t", "\n"}

IsPunct(c) == c \in {".", ",", ";", "!", "?"}

\* str.strip(): the characters from the first to the last that is no
\* whitespace.
Strip(chars) ==
    LET solid == {i \in 1..Len(chars) : ~IsSpace(chars[i])}
    IN  IF solid = {} THEN << >>
        ELSE LET lo == CHOOSE i \in solid : \A j \in solid : i <= j
                 hi == CHOOSE i \in solid : \A j \in solid : i >= j
             IN  SubSeq(chars, lo, hi)

\* tag.stripped_strings: the strings of the tag, each stripped, the empty
\* ones left out.
RECURSIVE StrippedStrings(_)
StrippedStrings(strings) ==
    IF strings = << >> THEN << >>
    ELSE LET head == Strip(Head(strings))
         IN  (IF head = << >> THEN << >> ELSE <<head>>) \o StrippedStrings(Tail(strings))

\* ' '.join(...)
RECURSIVE JoinWithSpace(_)
JoinWithSpace(strings) ==
    IF strings = << >> THEN << >>
    ELSE IF Len(strings) = 1 THEN strings[1]
    ELSE strings[1] \o <<" ">> \o JoinWithSpace(Tail(strings))

\* re.sub(r'\s([.,;!?])', r'\1', text): the matches are found from left to
\* right and do not overlap; each is one whitespace character followed by a
\* mark, and is replaced by the mark.
RECURSIVE ReSub(_, _)
ReSub(chars, i) ==
    IF i > Len(chars) THEN << >>
    ELSE IF i < Len(chars) /\ IsSpace(chars[i]) /\ IsPunct(chars[i + 1])
         THEN <<chars[i + 1]>> \o ReSub(chars, i + 2)
         ELSE <<chars[i]>> \o ReSub(chars, i + 1)

\* Lines 24-29.  A tag is None or an element; an element is always true.
extract_text(tag, default) ==
    IF tag # None
    THEN Str(ReSub(JoinWithSpace(StrippedStrings(tag.strings)), 1))
    ELSE default

\* The non-empty strings of at most n characters.
StringsUpTo(n) == SeqsUpTo(Chars, n) \ {<< >>}

\* The lists of strings a tag can hold, of at most n characters in all.
RECURSIVE StringListsUpTo(_)
StringListsUpTo(n) ==
    {<< >>} \cup UNION {{<<f>> \o rest : rest \in StringListsUpTo(n - Len(f))} :
                            f \in StringsUpTo(n)}

TextTags == {None} \cup {[strings |-> l] : l \in StringListsUpTo(MaxChars)}

TextDefaults == {Str(<< >>), Str(<<"a">>)}

ExtractTextCalls ==
    {[fn |-> "extract_text", tag |-> t, default |-> d] : t \in TextTags, d \in TextDefaults}

(***************************************************************************)
(* get_next_page_url, find_next_url, find_next_url_fallback (utils.py)     *)
(***************************************************************************)
\* Mutant: the comparison with current_url is left out.
AcceptableAny(next_url, page_url) == Truthy(next_url)

\* if next_url and next_url != current_url
Acceptable(next_url, page_url) == Truthy(next_url) /\ next_url # page_url

\* soup.select_one(selector): the first <a> inside li.next, or the
\* a.next_page of the page (None: nothing matches).
select_one(soup, selector) ==
    IF selector = "li.next a"
    THEN IF soup.li_next = << >> THEN None ELSE soup.li_next[1]
    ELSE soup.next_page

\* Lines 167-176, from selector i on.  The outcome is a returned value or
\* the ValueError extract_url lets through.
RECURSIVE FindNextUrlFrom(_, _, _, _, _)
FindNextUrlFrom(soup, selectors, i, page_url, base_url) ==
    IF i > Len(selectors) THEN Returned(None)
    ELSE LET next_element == select_one(soup, selectors[i])
         IN  IF next_element = None
             THEN FindNextUrlFrom(soup, selectors, i + 1, page_url, base_url)
             ELSE LET next_url == extract_url(next_element, None, base_url)
                  IN  IF next_url = Raised THEN Raised
                      ELSE IF Acceptable(next_url.value, page_url) THEN next_url
                      ELSE FindNextUrlFrom(soup, selectors, i + 1, page_url, base_url)

find_next_url(soup, selectors, page_url, base_url) ==
    FindNextUrlFrom(soup, selectors, 1, page_url, base_url)

\* next_li.find('a', href=True): the first <a> of li.next that has an href.
FirstWithHref(links) ==
    LET with == {i \in 1..Len(links) : links[i].has_attr}
    IN  IF with = {} THEN None
        ELSE links[CHOOSE i \in with : \A j \in with : i <= j]

\* Lines 197-206.
find_next_url_fallback(soup, page_url, base_url) ==
    IF ~soup.has_li_next THEN Returned(None)
    ELSE LET next_link == FirstWithHref(soup.li_next)
         IN  IF next_link = None THEN Returned(None)
             ELSE LET next_url == extract_url(next_link, None, base_url)
                  IN  IF next_url = Raised THEN Raised
                      ELSE IF Acceptable(next_url.value, page_url) THEN next_url
                      ELSE Returned(None)

\* Lines 129-144.  get_ok: the GET of current_url was answered with the
\* page; otherwise the request or raise_for_status raises.
get_next_page_url(get_ok, soup, page_url, base_url, selectors) ==
    IF ~get_ok THEN Raised
    ELSE LET next_url == find_next_url(soup, selectors, page_url, base_url)
         IN  IF next_url = Raised THEN Raised
             ELSE IF Truthy(next_url.value) THEN next_url
             ELSE find_next_url_fallback(soup, page_url, base_url)

\* The <a> elements of the pages handed to get_next_page_url: without an
\* href, with an empty one, with the path or the full URL of the current
\* page, with the path of the following page, with a malformed URL.
LinkValues ==
    {Str(<< >>), Str(<<"/page/2/">>), Str(<<"/page/3/">>),
     Concat(BASE_URL, Str(<<"/page/2/">>)), Str(<<"http://[">>)}

LinkTags ==
    {[has_attr |-> FALSE, value |-> None]}
        \cup {[has_attr |-> TRUE, value |-> v] : v \in LinkValues}

\* A page: whether it has a li.next, the <a> elements inside it, and its
\* a.next_page (None: it has none).
LinkSoups ==
    {[has_li_next |-> FALSE, li_next |-> << >>, next_page |-> n] : n \in {None} \cup LinkTags}
        \cup {[has_li_next |-> TRUE, li_next |-> l, next_page |-> n] :
                  l \in SeqsUpTo(LinkTags, MaxLinks), n \in {None} \cup LinkTags}

\* The default list of selectors (lines 129-130), the same reversed, none.
SelectorLists == {<<"li.next a", "a.next_page">>, <<"a.next_page", "li.next a">>, << >>}

GetNextPageUrlCalls ==
    {[fn |-> "get_next_page_url", get_ok |-> g, soup |-> s,
      current_url |-> Concat(BASE_URL, Str(<<"/page/2/">>)),
      base_url |-> b, selectors |-> sel] :
        g \in BOOLEAN, s \in LinkSoups, b \in {None, BASE_URL}, sel \in SelectorLists}

HelperCalls ==
    FetchQuotesCalls \cup ExtractUrlCalls \cup ExtractTextCalls \cup GetNextPageUrlCalls

\* No crawl is running and main has not been started.
NoCrawl ==
    /\ site = EmptyPages(1)
    /\ pc = "idle"
    /\ current_url = None
    /\ all_quotes = << >>
    /\ all_authors_details = << >>
    /\ fetched_authors = {}
    /\ quotes = << >>
    /\ tasks = << >>
    /\ authors_details = << >>
    /\ completed = << >>
    /\ inflight = {}
    /\ step = 0
    /\ trace = << >>
    /\ dispatched = << >>
    /\ author_failed = {}
    /\ main_pc = "idle"
    /\ written = << >>
    /\ write_failed = {}

InitHelpers ==
    /\ NoCrawl
    /\ call \in HelperCalls
    /\ result = NotReturned

CallFetchQuotes ==
    /\ call.fn = "fetch_quotes"
    /\ result = NotReturned
    /\ result' = Returned(fetch_quotes(call.soup))
    /\ UNCHANGED <<crawl_vars, main_vars, call>>

CallExtractUrl ==
    /\ call.fn = "extract_url"
    /\ result = NotReturned
    /\ result' = extract_url(call.tag, call.default, call.base_url)
    /\ UNCHANGED <<crawl_vars, main_vars, call>>

CallExtractText ==
    /\ call.fn = "extract_text"
    /\ result = NotReturned
    /\ result' = Returned(extract_text(call.tag, call.default))
    /\ UNCHANGED <<crawl_vars, main_vars, call>>

CallGetNextPageUrl ==
    /\ call.fn = "get_next_page_url"
    /\ result = NotReturned
    /\ result' = get_next_page_url(call.get_ok, call.soup, call.current_url,
                                    call.base_url, call.selectors)
    /\ UNCHANGED <<crawl_vars, main_vars, call>>

NextHelpers ==
    \/ CallFetchQuotes
    \/ CallExtractUrl
    \/ CallExtractText
    \/ CallGetNextPageUrl

SpecHelpers == InitHelpers /\ [][NextHelpers]_vars

(***************************************************************************)
(* What the site holds, read off the site itself.                          *)
(***************************************************************************)
\* The positions of the well-formed quote elements of page k, in page order.
RECURSIVE WellFormedFrom(_, _)
WellFormedFrom(k, i) ==
    IF i > Len(site[k].elements) THEN << >>
    ELSE IF site[k].elements[i].malformed
         THEN WellFormedFrom(k, i + 1)
         ELSE <<[page |-> k, idx |-> i]>> \o WellFormedFrom(k, i + 1)

WellFormedIds(k) == WellFormedFrom(k, 1)

\* The author URLs the well-formed quotes of page k refer to.
ReferencedAuthors(k) ==
    {Concat(BASE_URL, site[k].elements[i].href) :
        i \in {j \in 1..Len(site[k].elements) :
                  /\ ~site[k].elements[j].malformed
                  /\ site[k].elements[j].href \notin {None, Str(<< >>)}}}

\* The listing page a next link leads to.
LinkTarget(href) ==
    CHOOSE k \in Pages : href = Str(<<PageTokens[k]>>) \/ href = PageUrl(k)

\* The pages of site s reached from page k by following next links, at most
\* n of them.
RECURSIVE ChainOf(_, _, _)
ChainOf(s, k, n) ==
    IF n = 0 THEN << >>
    ELSE IF s[k].next = None THEN <<k>>
         ELSE <<k>> \o ChainOf(s, LinkTarget(s[k].next), n - 1)

\* The pages reached from the first page by following next links.
Chain == ChainOf(site, 1, MaxPages)

\* The site is a finite chain of listing pages: following the next links
\* from the first page ends at a page without one.
IsFiniteChain == site[Chain[Len(Chain)]].next = None

RECURSIVE SumLen(_, _)
SumLen(pages, n) ==
    IF n = 0 THEN 0 ELSE SumLen(pages, n - 1) + Len(WellFormedIds(pages[n]))

(***************************************************************************)
(* What a run has done, read off its history.                              *)
(***************************************************************************)
Count(seq, x) == Cardinality({i \in 1..Len(seq) : seq[i] = x})

Range(seq) == {seq[i] : i \in 1..Len(seq)}

Last(seq) == seq[Len(seq)]

PageGets == SelectSeq(trace, LAMBDA e : e.kind = "page")

\* The listing pages whose page GET was answered with the page.
ScrapedOk == {i \in 1..Len(trace) : trace[i].kind = "page" /\ trace[i].outcome = "ok"}

\* The page GET of entry i was answered and scrape_page_data has returned.
HasReturned(i) ==
    /\ trace[i].kind = "page"
    /\ trace[i].outcome = "ok"
    /\ trace[i].step < step \/ pc \notin {"gather", "page_return"}

\* The quotes of the pages scraped so far, in the order they were scraped.
RECURSIVE ExpectedIdsUpTo(_)
ExpectedIdsUpTo(n) ==
    IF n = 0 THEN << >>
    ELSE ExpectedIdsUpTo(n - 1)
            \o (IF HasReturned(n) THEN WellFormedIds(Route(trace[n].url)) ELSE << >>)

ExpectedIds == ExpectedIdsUpTo(Len(trace))

QuoteIds(qs) == [i \in 1..Len(qs) |-> qs[i].quote]

\* The record the fetch of author URL u resolves to.
RecordFor(u) == IF u \in author_failed THEN EmptyRecord ELSE AuthorPage(u)

NoFailure ==
    /\ author_failed = {}
    /\ \A i \in 1..Len(trace) : trace[i].outcome # "fail"

(***************************************************************************)
(* C1: in every crawl run a fetch is dispatched for an author URL at most  *)
(* once, and exactly once for every non-empty author URL of a quote of a   *)
(* successfully scraped page, however many quotes or pages refer to it.    *)
(***************************************************************************)
C1_DispatchedOnce ==
    /\ \A i \in 1..Len(dispatched) : Count(dispatched, dispatched[i]) = 1
    /\ \A i \in ScrapedOk :
         \A u \in ReferencedAuthors(Route(trace[i].url)) : Count(dispatched, u) = 1

\* Two successful scrapes, on two pages, refer to the same author.
C1_Witness ==
    \E i, j \in ScrapedOk :
        /\ i < j
        /\ Route(trace[i].url) # Route(trace[j].url)
        /\ ReferencedAuthors(Route(trace[i].url)) \cap ReferencedAuthors(Route(trace[j].url)) # {}

(***************************************************************************)
(* C2: on a finite chain of listing pages with no request failing,         *)
(* scrape_all_data returns as many quotes as the pages of the chain hold,  *)
(* one author record per distinct author URL they refer to, and requests   *)
(* exactly the pages of the chain, stopping at the first without a next    *)
(* link.                                                                   *)
(***************************************************************************)
C2_ChainTotals ==
    (pc = "done" /\ NoFailure /\ IsFiniteChain) =>
        /\ Len(all_quotes) = SumLen(Chain, Len(Chain))
        /\ Len(all_authors_details) =
              Cardinality(UNION {ReferencedAuthors(Chain[i]) : i \in 1..Len(Chain)})
        /\ [i \in 1..Len(PageGets) |-> Route(PageGets[i].url)] = Chain

\* A chain of two pages, each with a quote, crawled to the end.
C2_Witness ==
    /\ pc = "done"
    /\ NoFailure
    /\ IsFiniteChain
    /\ Len(Chain) = 2
    /\ \A i \in 1..2 : Len(WellFormedIds(Chain[i])) > 0
    /\ Len(all_authors_details) = 2

C8_PagesSequential ==
    \A r \in inflight :
        /\ r.step = step
        /\ r.kind \in {"page", "next"} => inflight = {r}

\* The second page is requested after the first dispatched author fetches.
C8_Witness ==
    /\ pc = "page_get"
    /\ step = 2
    /\ Len(dispatched) = 2
    /\ inflight # {}

C10_ResultsInDispatchOrder ==
    pc = "page_return" =>
        /\ Len(authors_details) = Len(tasks)
        /\ \A i \in 1..Len(tasks) :
              /\ tasks[i].url = dispatched[Len(dispatched) - Len(tasks) + i]
              /\ authors_details[i] = RecordFor(tasks[i].url)

\* The second call finished first, and the two results differ.
C10_Witness ==
    /\ pc = "page_return"
    /\ Len(tasks) = 2
    /\ completed = <<2, 1>>
    /\ authors_details[1] # authors_details[2]
    /\ authors_details[1] = EmptyRecord

(***************************************************************************)
(* C11: fetched_authors only grows during a run: it starts empty, no step  *)
(* takes a URL out of it, and the only step that changes it is the end of  *)
(* a successful page scrape.                                               *)
(***************************************************************************)
C11_SeenOnlyGrows ==
    /\ fetched_authors = {}
    /\ [][/\ fetched_authors \subseteq fetched_authors'
          /\ fetched_authors' # fetched_authors =>
                /\ pc = "gather"
                /\ pc' = "page_return"
                /\ fetched_authors' \ fetched_authors = {tasks[i].url : i \in 1..Len(tasks)}]_vars

\* The second page has added an author to the one the first page gave.
C11_Witness ==
    /\ pc = "page_return"
    /\ step = 2
    /\ Len(tasks) = 1
    /\ Cardinality(fetched_authors) = 2

C13_AuthorUrlAbsentOrAbsolute ==
    (call.fn = "fetch_quotes" /\ result # NotReturned) =>
        LET Good(el) == ~el.malformed
            good     == SelectSeq(call.soup.elements, Good)
        IN  \A i \in 1..Len(good) :
                result.value[i].author_url =
                    IF good[i].href = None THEN None
                    ELSE IF StartsWithHttp(good[i].href) THEN good[i].href
                    ELSE Concat(BASE_URL, good[i].href)

C16_DefaultOrValidUrl ==
    (call.fn = "extract_url" /\ result # NotReturned) =>
        /\ result # Raised
        /\ \/ result.value = call.default
           \/ is_valid_url(result.value) = Returned(TRUE)
        /\ ( /\ call.tag # None
             /\ call.tag.has_attr
             /\ Truthy(call.tag.value)
             /\ ~urlparse(call.tag.value).netloc
             /\ call.base_url = None ) => result.value = call.default

(***************************************************************************)
(* C17  extract_text is idempotent: for every tag x, extract_text of a tag *)
(* whose only string is extract_text(x) is extract_text(x) again, also     *)
(* when the text of x has several whitespace characters before a mark of   *)
(* . , ; ! ?                                                               *)
(***************************************************************************)
C17_ExtractTextIdempotent ==
    (call.fn = "extract_text" /\ result # NotReturned) =>
        extract_text([strings |-> <<result.value.s>>], call.default) = result.value

C20_AccumulatorsAppendOnly ==
    /\ [](QuoteIds(all_quotes) = ExpectedIds)
    /\ [][/\ Len(all_quotes') >= Len(all_quotes)
          /\ SubSeq(all_quotes', 1, Len(all_quotes)) = all_quotes
          /\ Len(all_authors_details') >= Len(all_authors_details)
          /\ SubSeq(all_authors_details', 1, Len(all_authors_details)) = all_authors_details
          /\ (all_quotes' # all_quotes \/ all_authors_details' # all_authors_details) =>
                /\ pc = "page_return"
                /\ all_quotes' = all_quotes \o quotes
                /\ all_authors_details' = all_authors_details \o authors_details]_vars

C20_Witness ==
    /\ pc = "lookup"
    /\ step = 2
    /\ Len(all_quotes) = 2
    /\ all_quotes[1].quote = [page |-> 1, idx |-> 1]
    /\ all_quotes[2].quote = [page |-> 2, idx |-> 1]
    /\ Len(all_authors_details) = 2

(***************************************************************************)
(* C21  get_next_page_url never returns its own current_url.  The links    *)
(* are tried in this order: the element of each selector, in the order of  *)
(* the selectors, then the link of the fallback.  What is returned is the  *)
(* URL of the first of them that is valid and differs from current_url, a  *)
(* link equal to current_url being passed over for the later ones, and     *)
(* None when there is none: so the value is a valid URL other than         *)
(* current_url, or None.  The call returns nothing only when its GET fails *)
(* or a link tried before any such URL was found holds a string urlparse   *)
(* rejects.                                                                *)
(***************************************************************************)
C21_NeverReturnsCurrentUrl ==
    (call.fn = "get_next_page_url" /\ result # NotReturned) =>
        LET Element(sel) ==
                IF sel = "li.next a"
                THEN (IF call.soup.li_next = << >> THEN << >> ELSE <<call.soup.li_next[1]>>)
                ELSE (IF call.soup.next_page = None THEN << >> ELSE <<call.soup.next_page>>)
            RECURSIVE Elements(_)
            Elements(i) ==
                IF i > Len(call.selectors) THEN << >>
                ELSE Element(call.selectors[i]) \o Elements(i + 1)
            HasHref(a) == a.has_attr
            hrefs    == SelectSeq(call.soup.li_next, HasHref)
            fallback == IF call.soup.has_li_next /\ hrefs # << >> THEN <<Head(hrefs)>> ELSE << >>
            tried    == Elements(1) \o fallback
            Url(i)   == extract_url(tried[i], None, call.base_url)
            Stops(i) == \/ Url(i) = Raised
                        \/ /\ Url(i).value # None
                           /\ Url(i).value # call.current_url
            stops    == {i \in 1..Len(tried) : Stops(i)}
            first    == CHOOSE i \in stops : \A j \in stops : i <= j
        IN  /\ result # Raised =>
                  /\ result.value # call.current_url
                  /\ \/ result.value = None
                     \/ is_valid_url(result.value) = Returned(TRUE)
            /\ result = IF ~call.get_ok THEN Raised
                        ELSE IF stops = {} THEN Returned(None)
                        ELSE Url(first)

C21_Witness ==
    /\ call.fn = "get_next_page_url"
    /\ call.get_ok
    /\ call.selectors = <<"li.next a", "a.next_page">>
    /\ call.base_url = BASE_URL
    /\ call.soup.li_next = <<[has_attr |-> TRUE, value |-> Str(<<"/page/2/">>)]>>
    /\ call.soup.next_page = [has_attr |-> TRUE, value |-> Str(<<"/page/3/">>)]
    /\ result = Returned(Str(<<"https://quotes.toscrape.com", "/page/3/">>))

====
